---- MODULE Spec2Model ----
(***************************************************************************)
(* Model of schedule.py: the punch-record pipeline of the attendance      *)
(* report (parse_time_string, calculate_duration, format_timedelta,       *)
(* process_punch_records, get_first_in_time, determine_status_and_ot and  *)
(* the per-row part of analyze_attendance_report).                        *)
(*                                                                         *)
(* Representation.  A time string 'HH:MM' matched by \d{2}:\d{2} is the   *)
(* tuple of its four digits.  A time object is <<hour, minute>>.  A       *)
(* timedelta is an integer number of seconds.  Python's None is None.     *)
(* A punch-records cell is NotAStr (NaN / null) or a sequence of chunks:  *)
(* a chunk is whitespace, text the pattern does not match, or a token     *)
(* 'HH:MM:in' / 'HH:MM:out'.                                               *)
(***************************************************************************)
EXTENDS Integers, Sequences, FiniteSets, TLC

VARIABLES pc, punch_records, row_hours, parsed_punches, shifts,
          net_work_duration, first_in_time, status, overtime,
          in_time_str, out_time_str, duration

vars == <<pc, punch_records, row_hours, parsed_punches, shifts,
          net_work_duration, first_in_time, status, overtime,
          in_time_str, out_time_str, duration>>

----------------------------------------------------------------------------
(* Bounds of the model *)

MaxLen == 4

MaxLenClassify == 2

----------------------------------------------------------------------------
(* Values *)

None == <<>>

NotAStr == <<[kind |-> "nan"]>>

Ws == [kind |-> "ws"]

Junk == [kind |-> "junk"]

Token(t, ty) == [kind |-> "token", time_str |-> t, type |-> ty]

T0000 == <<0, 0, 0, 0>>
T0100 == <<0, 1, 0, 0>>
T0900 == <<0, 9, 0, 0>>
T1030 == <<1, 0, 3, 0>>
T1031 == <<1, 0, 3, 1>>
T1330 == <<1, 3, 3, 0>>
T1331 == <<1, 3, 3, 1>>
T2300 == <<2, 3, 0, 0>>
T2400 == <<2, 4, 0, 0>>
T1260 == <<1, 2, 6, 0>>
T2599 == <<2, 5, 9, 9>>

PipelineTimes == {T0100, T0900, T1030, T1031, T2300, T2599}

ClassifyTimes == {T0000, T1030, T1031, T1330, T1331, T2599}

DurationTimes == {T0000, T0100, T0900, T1030, T1031, T1330, T1331, T2300,
                  T2400, T1260, T2599}

PunchTypes == {"in", "out"}

Tokens(times) == {Token(t, ty) : t \in times, ty \in PunchTypes}

SeqsUpTo(S, n) == UNION {[1..k -> S] : k \in 0..n}

PipelineTexts == {NotAStr} \cup SeqsUpTo(Tokens(PipelineTimes) \cup {Junk}, MaxLen)
                  \cup {<<Ws>>}

ClassifyTexts == {NotAStr} \cup SeqsUpTo(Tokens(ClassifyTimes) \cup {Junk}, MaxLenClassify)
                  \cup {<<Ws>>}

NetDurations == {0, 4 * 3600 - 1, 4 * 3600, 8 * 3600 - 1, 8 * 3600, 8 * 3600 + 1,
                 9 * 3600}

----------------------------------------------------------------------------
(* Thresholds of determine_status_and_ot and the break of                 *)
(* process_punch_records                                                   *)

LATE_ARRIVAL_START == <<10, 30>>

LATE_ARRIVAL_END == <<13, 30>>

HALF_DAY_MIN_DURATION == 4 * 3600

FULL_DAY_MIN_DURATION == 8 * 3600

STANDARD_WORKDAY == 8 * 3600

BREAK_DURATION == 30 * 60

DAY == 24 * 3600

----------------------------------------------------------------------------
(* Time objects *)

TimeLT(a, b) == a[1] < b[1] \/ (a[1] = b[1] /\ a[2] < b[2])

TimeGT(a, b) == TimeLT(b, a)

TimeSeconds(t) == t[1] * 3600 + t[2] * 60

(* datetime.strptime(s, '%H:%M').time(), None on ValueError *)
parse_time_string(s) ==
    LET hour == 10 * s[1] + s[2]
        minute == 10 * s[3] + s[4]
    IN IF hour <= 23 /\ minute <= 59 THEN <<hour, minute>> ELSE None

(* calculate_duration without the step over midnight *)
calculate_duration_NoWrap(i, o) ==
    LET in_time == parse_time_string(i)
        out_time == parse_time_string(o)
    IN IF in_time # None /\ out_time # None
       THEN TimeSeconds(out_time) - TimeSeconds(in_time)
       ELSE 0

calculate_duration(i, o) ==
    LET in_time == parse_time_string(i)
        out_time == parse_time_string(o)
    IN IF in_time # None /\ out_time # None
       THEN LET dt_in == TimeSeconds(in_time)
                dt_out == TimeSeconds(out_time)
            IN IF dt_out < dt_in THEN (dt_out + DAY) - dt_in ELSE dt_out - dt_in
       ELSE 0

(* 'HH:MM:SS' as <<hours, minutes, seconds>> *)
format_timedelta(td) ==
    LET hours == td \div 3600
        remainder == td % 3600
    IN <<hours, remainder \div 60, remainder % 60>>

----------------------------------------------------------------------------
(* Text *)

IsStr(s) == s # NotAStr

(* s.strip() is empty *)
StripEmpty(s) == \A k \in 1..Len(s) : s[k] = Ws

IsToken(c) == c.kind = "token"

(* pattern.findall: the matches, left to right *)
FindAll(s) == SelectSeq(s, IsToken)

----------------------------------------------------------------------------
(* list.sort(key=parse_time_string): stable, ascending; comparing a None  *)
(* key raises TypeError                                                    *)

SortRaises(punches) ==
    /\ Len(punches) >= 2
    /\ \E k \in 1..Len(punches) : parse_time_string(punches[k].time_str) = None

(* an insertion that puts an event before the events of equal time *)
RECURSIVE InsertPunch_Unstable(_, _, _)
InsertPunch_Unstable(x, sorted, k) ==
    IF k > Len(sorted) THEN Append(sorted, x)
    ELSE IF ~TimeLT(parse_time_string(sorted[k].time_str), parse_time_string(x.time_str))
         THEN SubSeq(sorted, 1, k - 1) \o <<x>> \o SubSeq(sorted, k, Len(sorted))
         ELSE InsertPunch_Unstable(x, sorted, k + 1)

RECURSIVE InsertPunch(_, _, _)
InsertPunch(x, sorted, k) ==
    IF k > Len(sorted) THEN Append(sorted, x)
    ELSE IF TimeLT(parse_time_string(x.time_str), parse_time_string(sorted[k].time_str))
         THEN SubSeq(sorted, 1, k - 1) \o <<x>> \o SubSeq(sorted, k, Len(sorted))
         ELSE InsertPunch(x, sorted, k + 1)

(* the events left in their order of appearance *)
SortPunches_Unsorted(punches, k, sorted) == punches

RECURSIVE SortPunches(_, _, _)
SortPunches(punches, k, sorted) ==
    IF k > Len(punches) THEN sorted
    ELSE SortPunches(punches, k + 1, InsertPunch(punches[k], sorted, 1))

----------------------------------------------------------------------------
(* process_punch_records *)

ParsedPunch(c) == [time_str |-> c.time_str, type |-> c.type]

ParsedPunches(punches) == [k \in 1..Len(punches) |-> ParsedPunch(punches[k])]

ShiftInfo(in_time, out_str, d) ==
    [timing |-> <<in_time, out_str>>, duration |-> format_timedelta(d)]

(* a loop in which a pending 'in' is not overwritten by a later 'in' *)
RECURSIVE PairLoop_KeepFirstIn(_, _, _, _, _)
PairLoop_KeepFirstIn(parsed, k, in_time, total, shs) ==
    IF k > Len(parsed) THEN [total_work_duration |-> total, shifts |-> shs]
    ELSE LET punch == parsed[k]
         IN IF punch.type = "in"
            THEN PairLoop_KeepFirstIn(parsed, k + 1,
                                      IF in_time = None THEN punch.time_str ELSE in_time,
                                      total, shs)
            ELSE IF punch.type = "out" /\ in_time # None
                 THEN LET d == calculate_duration(in_time, punch.time_str)
                      IN PairLoop_KeepFirstIn(parsed, k + 1, None, total + d,
                                  Append(shs, ShiftInfo(in_time, punch.time_str, d)))
                 ELSE PairLoop_KeepFirstIn(parsed, k + 1, in_time, total, shs)

(* the loop over parsed_punches, from index k on *)
RECURSIVE PairLoop(_, _, _, _, _)
PairLoop(parsed, k, in_time, total, shs) ==
    IF k > Len(parsed) THEN [total_work_duration |-> total, shifts |-> shs]
    ELSE LET punch == parsed[k]
         IN IF punch.type = "in"
            THEN PairLoop(parsed, k + 1, punch.time_str, total, shs)
            ELSE IF punch.type = "out" /\ in_time # None
                 THEN LET d == calculate_duration(in_time, punch.time_str)
                      IN PairLoop(parsed, k + 1, None, total + d,
                                  Append(shs, ShiftInfo(in_time, punch.time_str, d)))
                 ELSE PairLoop(parsed, k + 1, in_time, total, shs)

Max(a, b) == IF a >= b THEN a ELSE b

(* the break deducted whenever a shift was formed *)
BreakDeduction_AnyShift(total, shs) ==
    IF Len(shs) >= 1 THEN Max(total - BREAK_DURATION, 0) ELSE total

BreakDeduction(total, shs) ==
    IF Len(shs) = 1 THEN Max(total - BREAK_DURATION, 0) ELSE total

Returned(net, shs, parsed) ==
    [raised |-> FALSE, net |-> net, shifts |-> shs, parsed |-> parsed]

Raised == [raised |-> TRUE, net |-> 0, shifts |-> <<>>, parsed |-> <<>>]

process_punch_records(s) ==
    IF ~IsStr(s) THEN Returned(0, <<>>, <<>>)
    ELSE IF StripEmpty(s) THEN Returned(0, <<>>, <<>>)
    ELSE LET punches == FindAll(s)
         IN IF punches = <<>> THEN Returned(0, <<>>, <<>>)
            ELSE IF SortRaises(ParsedPunches(punches)) THEN Raised
            ELSE LET parsed == SortPunches(ParsedPunches(punches), 1, <<>>)
                     r == PairLoop(parsed, 1, None, 0, <<>>)
                 IN Returned(BreakDeduction(r.total_work_duration, r.shifts),
                             r.shifts, parsed)

----------------------------------------------------------------------------
(* get_first_in_time *)

IsValidIn(c) == c.type = "in" /\ parse_time_string(c.time_str) # None

RECURSIVE MinTime(_, _, _)
MinTime(times, k, m) ==
    IF k > Len(times) THEN m
    ELSE MinTime(times, k + 1, IF TimeLT(times[k], m) THEN times[k] ELSE m)

get_first_in_time(s) ==
    IF ~IsStr(s) THEN None
    ELSE IF StripEmpty(s) THEN None
    ELSE LET ins == SelectSeq(FindAll(s), IsValidIn)
             in_punch_times == [k \in 1..Len(ins) |-> parse_time_string(ins[k].time_str)]
         IN IF in_punch_times = <<>> THEN None
            ELSE MinTime(in_punch_times, 2, in_punch_times[1])

----------------------------------------------------------------------------
(* determine_status_and_ot *)

IsLate(first_in) == first_in # None /\ TimeGT(first_in, LATE_ARRIVAL_START)

(* Absent from 13:30 on *)
LateStatus_Inclusive(first_in) ==
    IF ~TimeLT(first_in, LATE_ARRIVAL_END) THEN "Absent" ELSE "Half Day"

LateStatus(first_in) ==
    IF TimeGT(first_in, LATE_ARRIVAL_END) THEN "Absent" ELSE "Half Day"

(* overtime counted from the half-day threshold *)
OnTimeOvertime_HalfDay(net) ==
    IF net > HALF_DAY_MIN_DURATION THEN net - HALF_DAY_MIN_DURATION ELSE 0

OnTimeOvertime(net) == IF net > STANDARD_WORKDAY THEN net - STANDARD_WORKDAY ELSE 0

(* Absent up to and including 4h *)
OnTimeStatus_Inclusive(net) ==
    IF net <= HALF_DAY_MIN_DURATION THEN "Absent"
    ELSE IF net >= FULL_DAY_MIN_DURATION THEN "Full Day"
    ELSE "Half Day"

OnTimeStatus(net) ==
    IF net < HALF_DAY_MIN_DURATION THEN "Absent"
    ELSE IF net >= FULL_DAY_MIN_DURATION THEN "Full Day"
    ELSE "Half Day"

determine_status_and_ot(net, s) ==
    LET first_in == get_first_in_time(s)
    IN IF IsLate(first_in)
       THEN [status |-> LateStatus(first_in), overtime |-> 0, first_in_time |-> first_in]
       ELSE [status |-> OnTimeStatus(net), overtime |-> OnTimeOvertime(net),
             first_in_time |-> first_in]

----------------------------------------------------------------------------
(* The per-row pipeline of analyze_attendance_report *)

Init ==
    /\ pc = "row"
    /\ punch_records \in PipelineTexts
    /\ row_hours = 0
    /\ parsed_punches = <<>>
    /\ shifts = <<>>
    /\ net_work_duration = 0
    /\ first_in_time = None
    /\ status = "Absent"
    /\ overtime = 0
    /\ in_time_str = None
    /\ out_time_str = None
    /\ duration = 0

(* df['Punch Records'].apply(process_punch_records); the TypeError of the  *)
(* sort ends the report in the except clause                               *)
ApplyProcessPunchRecords ==
    /\ pc = "row"
    /\ LET r == process_punch_records(punch_records)
       IN /\ pc' = IF r.raised THEN "raised" ELSE "processed"
          /\ net_work_duration' = r.net
          /\ row_hours' = r.net
          /\ shifts' = r.shifts
          /\ parsed_punches' = r.parsed
    /\ UNCHANGED <<punch_records, first_in_time, status, overtime,
                   in_time_str, out_time_str, duration>>

(* df.apply(determine_status_and_ot, axis=1) *)
ApplyDetermineStatusAndOt ==
    /\ pc = "processed"
    /\ LET r == determine_status_and_ot(row_hours, punch_records)
       IN /\ status' = r.status
          /\ overtime' = r.overtime
          /\ first_in_time' = r.first_in_time
    /\ pc' = "classified"
    /\ UNCHANGED <<punch_records, row_hours, parsed_punches, shifts,
                   net_work_duration, in_time_str, out_time_str, duration>>

Next == ApplyProcessPunchRecords \/ ApplyDetermineStatusAndOt

Spec == Init /\ [][Next]_vars

----------------------------------------------------------------------------
(* determine_status_and_ot called on an arbitrary row *)

InitClassify ==
    /\ pc = "call"
    /\ punch_records \in ClassifyTexts
    /\ row_hours \in NetDurations
    /\ parsed_punches = <<>>
    /\ shifts = <<>>
    /\ net_work_duration = 0
    /\ first_in_time = None
    /\ status = "Absent"
    /\ overtime = 0
    /\ in_time_str = None
    /\ out_time_str = None
    /\ duration = 0

CallDetermineStatusAndOt ==
    /\ pc = "call"
    /\ LET r == determine_status_and_ot(row_hours, punch_records)
       IN /\ status' = r.status
          /\ overtime' = r.overtime
          /\ first_in_time' = r.first_in_time
    /\ pc' = "classified"
    /\ UNCHANGED <<punch_records, row_hours, parsed_punches, shifts,
                   net_work_duration, in_time_str, out_time_str, duration>>

NextClassify == CallDetermineStatusAndOt

SpecClassify == InitClassify /\ [][NextClassify]_vars

----------------------------------------------------------------------------
(* calculate_duration called on two time strings *)

InitDuration ==
    /\ pc = "call"
    /\ in_time_str \in DurationTimes
    /\ out_time_str \in DurationTimes
    /\ duration = 0
    /\ punch_records = NotAStr
    /\ row_hours = 0
    /\ parsed_punches = <<>>
    /\ shifts = <<>>
    /\ net_work_duration = 0
    /\ first_in_time = None
    /\ status = "Absent"
    /\ overtime = 0

CallCalculateDuration ==
    /\ pc = "call"
    /\ duration' = calculate_duration(in_time_str, out_time_str)
    /\ pc' = "returned"
    /\ UNCHANGED <<punch_records, row_hours, parsed_punches, shifts,
                   net_work_duration, first_in_time, status, overtime,
                   in_time_str, out_time_str>>

NextDuration == CallCalculateDuration

SpecDuration == InitDuration /\ [][NextDuration]_vars

----------------------------------------------------------------------------
(* Vocabulary of the properties, defined on the text and the results      *)
(* alone                                                                   *)

ClockOf(t) == <<10 * t[1] + t[2], 10 * t[3] + t[4]>>

ValidClock(t) == ClockOf(t)[1] <= 23 /\ ClockOf(t)[2] <= 59

ClockSeconds(t) == ClockOf(t)[1] * 3600 + ClockOf(t)[2] * 60

ClockLE(a, b) == a[1] < b[1] \/ (a[1] = b[1] /\ a[2] <= b[2])

InEvents(s) ==
    IF s = NotAStr THEN {}
    ELSE {k \in 1..Len(s) : s[k].kind = "token" /\ s[k].type = "in"}

InTimes(s) ==
    {ClockOf(s[k].time_str) : k \in {j \in InEvents(s) : ValidClock(s[j].time_str)}}

HasFirstIn == InTimes(punch_records) # {}

FirstIn == CHOOSE t \in InTimes(punch_records) :
               \A u \in InTimes(punch_records) : ClockLE(t, u)

Late == HasFirstIn /\ ~ClockLE(FirstIn, <<10, 30>>)

OnTime == HasFirstIn /\ ClockLE(FirstIn, <<10, 30>>)

Processed == pc \in {"processed", "classified"}

Classified == pc = "classified"

FormattedSeconds(d) == d[1] * 3600 + d[2] * 60 + d[3]

RECURSIVE SumDurations(_, _)
SumDurations(shs, k) ==
    IF k > Len(shs) THEN 0
    ELSE FormattedSeconds(shs[k].duration) + SumDurations(shs, k + 1)

ShiftStart(sh) == ClockSeconds(sh.timing[1])

ShiftEnd(sh) == ClockSeconds(sh.timing[2])

GradeByNet(net) ==
    IF net < 14400 THEN "Absent" ELSE IF net >= 28800 THEN "Full Day" ELSE "Half Day"

----------------------------------------------------------------------------
(* C1: the pipeline is total: process_punch_records, get_first_in_time    *)
(* and determine_status_and_ot return a result for every punch-records    *)
(* input and never raise.                                                  *)
C1_NeverRaises == pc # "raised"

----------------------------------------------------------------------------
(* C2: when the first chronological 'in' time is later than 10:30 the     *)
(* overtime is 0 for every net duration and the status is Absent if that  *)
(* time is later than 13:30 and Half Day otherwise; exactly 13:30 gives   *)
(* Half Day and exactly 10:30 is graded as on time.                       *)
C2_LateArrival ==
    Classified =>
        /\ Late => /\ overtime = 0
                   /\ status = IF ClockLE(FirstIn, <<13, 30>>) THEN "Half Day" ELSE "Absent"
        /\ (HasFirstIn /\ FirstIn = <<13, 30>>) => status = "Half Day"
        /\ (HasFirstIn /\ FirstIn = <<10, 30>>) =>
               /\ status = GradeByNet(row_hours)
               /\ overtime = Max(row_hours - 28800, 0)

C2_Witness ==
    /\ Classified
    /\ HasFirstIn
    /\ FirstIn = <<13, 30>>
    /\ row_hours = 9 * 3600
    /\ status = "Half Day"
    /\ overtime = 0

----------------------------------------------------------------------------
(* C3: when a first 'in' time exists and is at or before 10:30 the        *)
(* overtime is max(net - 8h, 0) and the status is Absent under 4h, Full   *)
(* Day from 8h on and Half Day in between; exactly 4h is Half Day and     *)
(* exactly 8h is Full Day with overtime 0.                                *)
C3_OnTimeArrival ==
    (Classified /\ OnTime) =>
        /\ overtime = Max(row_hours - 28800, 0)
        /\ status = GradeByNet(row_hours)
        /\ row_hours = 14400 => status = "Half Day"
        /\ row_hours = 28800 => (status = "Full Day" /\ overtime = 0)

C3_Witness ==
    /\ Classified
    /\ OnTime
    /\ FirstIn = <<10, 30>>
    /\ row_hours = 14400
    /\ status = "Half Day"

----------------------------------------------------------------------------
(* C4: when the punch text holds no 'in' event at all, the classifier     *)
(* returns Absent and overtime 0 whatever net duration it is given.       *)
C4_NoInIsAbsent ==
    (Classified /\ InEvents(punch_records) = {}) =>
        (status = "Absent" /\ overtime = 0)

----------------------------------------------------------------------------
(* C5: net = max(sum of shift durations - 30 min, 0) with exactly one     *)
(* shift, net = the sum with zero or several shifts; never negative.      *)
C5_BreakDeduction ==
    Processed =>
        /\ Len(shifts) = 1 =>
               net_work_duration = Max(SumDurations(shifts, 1) - 1800, 0)
        /\ Len(shifts) # 1 => net_work_duration = SumDurations(shifts, 1)
        /\ Len(shifts) = 0 => net_work_duration = 0
        /\ net_work_duration >= 0

C5_Witness ==
    /\ Processed
    /\ Len(shifts) = 1
    /\ SumDurations(shifts, 1) > 1800
    /\ net_work_duration = SumDurations(shifts, 1) - 1800

----------------------------------------------------------------------------
(* C6: over the sorted events, an 'out' closes a shift exactly when an    *)
(* 'in' is pending; the shift starts at the most recent 'in'; an 'out'    *)
(* without a pending 'in' and a trailing 'in' form no shift; each event   *)
(* is in at most one shift.                                                *)

(* an 'in' precedes event j with no 'out' between the two *)
InPending(ev, j) ==
    \E i \in 1..(j - 1) :
        /\ ev[i].type = "in"
        /\ \A m \in (i + 1)..(j - 1) : ev[m].type # "out"

Closes(ev, j) == ev[j].type = "out" /\ InPending(ev, j)

MostRecentIn(ev, j) ==
    CHOOSE i \in 1..(j - 1) :
        /\ ev[i].type = "in"
        /\ \A m \in (i + 1)..(j - 1) : ev[m].type # "in"

RECURSIVE ExpectedTimings(_, _)
ExpectedTimings(ev, j) ==
    IF j > Len(ev) THEN <<>>
    ELSE (IF Closes(ev, j)
          THEN <<(<<ev[MostRecentIn(ev, j)].time_str, ev[j].time_str>>)>>
          ELSE <<>>) \o ExpectedTimings(ev, j + 1)

ClosingEvents(ev) == {j \in 1..Len(ev) : Closes(ev, j)}

Timings(shs) == [k \in 1..Len(shs) |-> shs[k].timing]

C6_PairingPolicy ==
    Processed =>
        /\ Timings(shifts) = ExpectedTimings(parsed_punches, 1)
        /\ Len(shifts) = Cardinality(ClosingEvents(parsed_punches))
        /\ \A j1, j2 \in ClosingEvents(parsed_punches) :
               j1 # j2 => MostRecentIn(parsed_punches, j1) # MostRecentIn(parsed_punches, j2)

C6_Witness ==
    /\ Processed
    /\ Len(parsed_punches) = 4
    /\ [k \in 1..4 |-> parsed_punches[k].type] = <<"in", "in", "out", "out">>
    /\ parsed_punches[1].time_str # parsed_punches[2].time_str
    /\ Len(shifts) = 1
    /\ shifts[1].timing = <<parsed_punches[2].time_str, parsed_punches[3].time_str>>

----------------------------------------------------------------------------
(* C7: calculate_duration is never negative: for valid times with         *)
(* end < start the result is (end + 24h) - start (23:00 to 01:00 gives    *)
(* 2:00:00), for end >= start it is end - start.                          *)
C7_DurationWraps ==
    (pc = "returned" /\ ValidClock(in_time_str) /\ ValidClock(out_time_str)) =>
        LET start == ClockSeconds(in_time_str)
            end == ClockSeconds(out_time_str)
        IN /\ duration >= 0
           /\ end < start => duration = (end + 86400) - start
           /\ end >= start => duration = end - start
           /\ (in_time_str = T2300 /\ out_time_str = T0100) => duration = 7200

C7_Witness ==
    /\ pc = "returned"
    /\ in_time_str = T2300
    /\ out_time_str = T0100
    /\ duration = 7200

----------------------------------------------------------------------------
(* C8: before pairing the events are ordered by clock time ascending and  *)
(* events of equal time keep their order of appearance in the text:       *)
(* '09:00:in 09:00:out' forms a zero-length shift, '09:00:out 09:00:in'   *)
(* forms none.                                                             *)
EventsAt(ev, t) ==
    LET At(e) == e.time_str = t
    IN SelectSeq(ev, At)

Extracted(s) ==
    LET Tok(c) == c.kind = "token"
        toks == SelectSeq(s, Tok)
    IN [k \in 1..Len(toks) |-> [time_str |-> toks[k].time_str, type |-> toks[k].type]]

C8_StableSort ==
    Processed =>
        LET ev == Extracted(punch_records)
        IN /\ Len(parsed_punches) = Len(ev)
           /\ \A i, j \in 1..Len(parsed_punches) :
                  i < j =>
                      ClockSeconds(parsed_punches[i].time_str)
                          <= ClockSeconds(parsed_punches[j].time_str)
           /\ \A k \in 1..Len(ev) :
                  EventsAt(parsed_punches, ev[k].time_str) = EventsAt(ev, ev[k].time_str)
           /\ \A t \in PipelineTimes :
                  /\ (ValidClock(t) /\ ev = <<[time_str |-> t, type |-> "in"],
                                             [time_str |-> t, type |-> "out"]>>)
                         => (Len(shifts) = 1 /\ shifts[1].duration = <<0, 0, 0>>)
                  /\ ev = <<[time_str |-> t, type |-> "out"],
                            [time_str |-> t, type |-> "in"]>>
                         => shifts = <<>>

C8_Witness ==
    /\ Processed
    /\ Len(parsed_punches) = 3
    /\ parsed_punches # Extracted(punch_records)
    /\ parsed_punches[2].time_str = parsed_punches[3].time_str
    /\ parsed_punches[2].type = "in"
    /\ parsed_punches[3].type = "out"
    /\ Len(shifts) = 1
    /\ shifts[1].duration = <<0, 0, 0>>

----------------------------------------------------------------------------
(* C9: every formed shift has start <= end (the overnight wrap is never   *)
(* taken in the pipeline: '23:00:in 01:00:out' forms no shift), shifts    *)
(* are in ascending start order and do not overlap, and the durations     *)
(* sum to less than 24 hours.                                              *)
C9_ShiftsOrdered ==
    Processed =>
        /\ \A k \in 1..Len(shifts) :
               /\ ShiftStart(shifts[k]) <= ShiftEnd(shifts[k])
               /\ FormattedSeconds(shifts[k].duration)
                      = ShiftEnd(shifts[k]) - ShiftStart(shifts[k])
        /\ \A k \in 1..(Len(shifts) - 1) :
               /\ ShiftStart(shifts[k]) <= ShiftStart(shifts[k + 1])
               /\ ShiftEnd(shifts[k]) <= ShiftStart(shifts[k + 1])
        /\ SumDurations(shifts, 1) < 86400
        /\ Extracted(punch_records) = <<[time_str |-> T2300, type |-> "in"],
                                        [time_str |-> T0100, type |-> "out"]>>
               => shifts = <<>>

C9_Witness ==
    /\ Processed
    /\ Len(shifts) = 2
    /\ ShiftEnd(shifts[1]) < ShiftStart(shifts[2])
    /\ parsed_punches # Extracted(punch_records)

----------------------------------------------------------------------------
(* C10: through the full pipeline overtime is positive only when the      *)
(* status is Full Day and the first 'in' is at or before 10:30; with      *)
(* status Absent or Half Day the overtime is 0.                           *)
C10_OvertimeOnlyFullDay ==
    Classified =>
        /\ overtime > 0 => (status = "Full Day" /\ OnTime)
        /\ status \in {"Absent", "Half Day"} => overtime = 0

C10_Witness ==
    /\ Classified
    /\ overtime > 0
    /\ status = "Full Day"
    /\ OnTime
    /\ Len(shifts) = 1

====
